---- MODULE Spec2Model ----
(***************************************************************************)
(* Model of the HAASP retrieval service: FaissManager (faiss_manager.py)   *)
(* driven by the FastAPI endpoints of main.py.  The endpoints are plain    *)
(* `def` functions, which FastAPI runs on a thread pool, so several calls  *)
(* on the one FaissManager (one FAISS index object, one psycopg2           *)
(* connection) can be in flight at once.                                   *)
(***************************************************************************)
EXTENDS Integers, Sequences, FiniteSets, TLC

VARIABLES
    index,        \* self.index: the in-memory IndexIDMap, a sequence of [id, vec]
    indexFile,    \* the file at self.index_path: whether it exists, the index
                  \* saved in it, and whether a write of it was cut short
    chunksTable,  \* committed rows of the PostgreSQL table `chunks`
    conn,         \* self.conn: the open transaction of the one shared connection
    pc,           \* per request thread: where it is in its handler ("down":
                  \* the process is not running)
    local,        \* per request thread: the handler's local variables
    response,     \* what the call that finished last hands to its caller
    allocated,    \* history: blocks of the add_document calls that returned
                  \* normally since the last reset() was called or the
                  \* process was started
    serial,       \* TRUE: the callers send one request at a time
    calls,        \* the number of requests that have arrived, counted where
                  \* requests are served concurrently
    chunker       \* a call of _chunk_text on its own: its input and its result

vars == <<index, indexFile, chunksTable, conn, pc, local, response, allocated, serial, calls,
          chunker>>

-----------------------------------------------------------------------------
(* Configuration constants of faiss_manager.py *)

CHUNK_SIZE == 512

CHUNK_OVERLAP == 128

(* SearchQuery.k when the request names none *)
DefaultK == 5

(* Bounds of the model *)

MaxVectors == 3

MaxCalls == 3

MaxTokens == 8

MaxChunkSize == 4

Threads == {"t1", "t2"}

NoFile == [exists |-> FALSE, data |-> <<>>, torn |-> FALSE]

NoMatch == -1

FLT_MAX == 1000000000

Whitespace == {" ", "\t", "\n"}

-----------------------------------------------------------------------------
(* str.split(): the maximal runs of non-whitespace characters, in order.   *)
(* A text is a sequence of one-character strings; a token is a string.     *)

IsTokenStart(s, i) == s[i] \notin Whitespace /\ (i = 1 \/ s[i - 1] \in Whitespace)

TokenEnd(s, i) == CHOOSE j \in i..Len(s) : j = Len(s) \/ s[j + 1] \in Whitespace

RECURSIVE ConcatChars(_, _, _)
ConcatChars(s, lo, hi) ==
    IF lo = hi THEN s[lo]
    ELSE LET mid == (lo + hi) \div 2
         IN  ConcatChars(s, lo, mid) \o ConcatChars(s, mid + 1, hi)

RECURSIVE SplitRange(_, _, _)
SplitRange(s, lo, hi) ==
    IF lo > hi THEN <<>>
    ELSE IF lo = hi
         THEN IF IsTokenStart(s, lo)
              THEN <<ConcatChars(s, lo, TokenEnd(s, lo))>>
              ELSE <<>>
         ELSE LET mid == (lo + hi) \div 2
              IN  SplitRange(s, lo, mid) \o SplitRange(s, mid + 1, hi)

Split(s) == SplitRange(s, 1, Len(s))

(* " ".join(tokens[lo..hi]) *)
RECURSIVE Join(_, _, _)
Join(toks, lo, hi) ==
    IF lo > hi THEN ""
    ELSE IF lo = hi THEN toks[lo]
    ELSE LET mid == (lo + hi) \div 2
         IN  Join(toks, lo, mid) \o " " \o Join(toks, mid + 1, hi)

Min(a, b) == IF a < b THEN a ELSE b

(* ChunkWindows with no window for the tokens of the last overlap *)
ChunkWindows_StopAtOverlap(tokens, size, overlap) ==
    LET stride == size - overlap
        T      == Len(tokens)
        rest   == IF T > overlap THEN T - overlap ELSE 0
        count  == (rest + stride - 1) \div stride
    IN  [w \in 1..count |->
            Join(tokens, (w - 1) * stride + 1, Min((w - 1) * stride + size, T))]

(* The loop of _chunk_text over range(0, len(tokens), size - overlap):     *)
(* window w (from 1) starts at token (w-1)*stride (from 0) and holds       *)
(* tokens[i : i + size], cut at the end of the token list.                 *)
ChunkWindows(tokens, size, overlap) ==
    LET stride == size - overlap
        T      == Len(tokens)
        count  == (T + stride - 1) \div stride
    IN  [w \in 1..count |->
            Join(tokens, (w - 1) * stride + 1, Min((w - 1) * stride + size, T))]

chunk_text(text) == ChunkWindows(Split(text), CHUNK_SIZE, CHUNK_OVERLAP)

-----------------------------------------------------------------------------
(* Request inputs *)

ContentEmpty == <<>>

ContentBlank == <<" ", "\n">>

ContentShort == <<" ", "a", "b", "\n", "c">>

(* 385 one-letter tokens: one more than the stride, so two windows *)
ContentLong == [i \in 1..(2 * (CHUNK_SIZE - CHUNK_OVERLAP + 1) - 1) |->
                   IF i % 2 = 1 THEN "w" ELSE " "]

Contents == {ContentEmpty, ContentBlank, ContentShort, ContentLong}

ChunksOf == [c \in Contents |-> chunk_text(c)]

DocIds == {"", "d1", "d2"}

Queries == {"w", "a sky"}

Ks == {0, 1, 2, DefaultK}

(* model.encode: an opaque deterministic function of the text; here a      *)
(* one-dimensional embedding, the length of the text.                      *)
Embed(text) == Len(text)

(* IndexFlatL2: squared Euclidean distance *)
L2(a, b) == (a - b) * (a - b)

-----------------------------------------------------------------------------
(* The chunks table as seen through the shared connection *)

NoTxn == [pending |-> {}, truncated |-> FALSE, aborted |-> FALSE]

Visible == (IF conn.truncated THEN {} ELSE chunksTable) \cup conn.pending

VectorIdsOf(rows) == {r.vector_id : r \in rows}

IdleLocal == [op |-> "none", doc_id |-> "", chunks |-> <<>>, start_id |-> 0,
              i |-> 0, failed |-> FALSE, distances |-> <<>>, vector_ids |-> <<>>]

NoResult == [op |-> "none", status |-> "none", error |-> "none", added |-> 0, k |-> 0,
             results |-> <<>>, distances |-> <<>>, vector_ids |-> <<>>, rows |-> {}]

ntotal == Len(index)

(* _chunk_text is not being looked at on its own *)
NoChunking == [text |-> <<>>, size |-> CHUNK_SIZE, overlap |-> CHUNK_OVERLAP,
               called |-> FALSE, chunks |-> <<>>]

InFlightChunks == LET S == {t \in Threads : pc[t] \in {"a_read", "a_addvec"}}
                      RECURSIVE Sum(_)
                      Sum(U) == IF U = {} THEN 0
                                ELSE LET u == CHOOSE u \in U : TRUE
                                     IN  Len(local[u].chunks) + Sum(U \ {u})
                  IN  Sum(S)

Init ==
    /\ index = <<>>
    /\ indexFile = NoFile
    /\ chunksTable = {}
    /\ conn = NoTxn
    /\ pc = [t \in Threads |-> "idle"]
    /\ local = [t \in Threads |-> IdleLocal]
    /\ response = NoResult
    /\ allocated = <<>>
    /\ serial = FALSE
    /\ calls = 0
    /\ chunker = NoChunking

(* The same service with callers that send one request at a time *)
InitSeq ==
    /\ index = <<>>
    /\ indexFile = NoFile
    /\ chunksTable = {}
    /\ conn = NoTxn
    /\ pc = [t \in Threads |-> "idle"]
    /\ local = [t \in Threads |-> IdleLocal]
    /\ response = NoResult
    /\ allocated = <<>>
    /\ serial = TRUE
    /\ calls = 0
    /\ chunker = NoChunking

AllIdle == \A t \in Threads : pc[t] = "idle"

(* A request arrives: under serial callers only when no call is in flight  *)
(* (any number of calls); else at any time, MaxCalls requests in a run.    *)
Admit ==
    /\ serial' = serial
    /\ chunker' = chunker
    /\ IF serial
       THEN AllIdle /\ calls' = calls
       ELSE calls < MaxCalls /\ calls' = calls + 1

-----------------------------------------------------------------------------
(* add_document(doc_id, content): faiss_manager.py lines 104-136, called   *)
(* from the /add endpoint, which turns any exception into HTTP 500.        *)

(* VectorIds with the block starting one id too high *)
VectorIds_OffByOne(start_id, n) == [i \in 1..n |-> start_id + i]

(* np.arange(start_id, start_id + n): the id of chunk i (from 1) *)
VectorIds(start_id, n) == [i \in 1..n |-> start_id + i - 1]

(* InsertRow with every row carrying the text of the first chunk *)
InsertRow_FirstChunk(doc_id, chunks, vector_ids, i) ==
    [doc_id |-> doc_id, chunk_text |-> chunks[1], vector_id |-> vector_ids[i]]

(* the row one INSERT of the loop writes *)
InsertRow(doc_id, chunks, vector_ids, i) ==
    [doc_id |-> doc_id, chunk_text |-> chunks[i], vector_id |-> vector_ids[i]]

(* index.add_with_ids(embeddings, vector_ids): appends, never checks ids *)
AddWithIds(idx, chunks, vector_ids) ==
    idx \o [i \in 1..Len(chunks) |-> [id |-> vector_ids[i], vec |-> Embed(chunks[i])]]

(* the handler is through: the endpoint has its answer *)
Finish(t, res) ==
    /\ pc' = [pc EXCEPT ![t] = "done"]
    /\ local' = [local EXCEPT ![t] = IdleLocal]
    /\ response' = res

(* AddBegin with the no-chunks path persisting the index before it returns *)
AddBegin_SaveWhenEmpty(t, doc_id, content) ==
    /\ pc[t] = "idle"
    /\ Admit
    /\ ntotal + InFlightChunks + Len(ChunksOf[content]) <= MaxVectors
    /\ IF ChunksOf[content] = <<>>
       THEN /\ Finish(t, [NoResult EXCEPT !.op = "add", !.status = "ok"])
            /\ indexFile' = [exists |-> TRUE, data |-> index, torn |-> FALSE]
            /\ UNCHANGED <<index, chunksTable, conn, allocated>>
       ELSE /\ pc' = [pc EXCEPT ![t] = "a_read"]
            /\ local' = [local EXCEPT ![t] =
                   [IdleLocal EXCEPT !.op = "add", !.doc_id = doc_id,
                                     !.chunks = ChunksOf[content]]]
            /\ response' = NoResult
            /\ UNCHANGED <<index, indexFile, chunksTable, conn, allocated>>

(* lines 109-113: chunk the content; no chunks: return at once *)
AddBegin(t, doc_id, content) ==
    /\ pc[t] = "idle"
    /\ Admit
    /\ ntotal + InFlightChunks + Len(ChunksOf[content]) <= MaxVectors
    /\ IF ChunksOf[content] = <<>>
       THEN /\ Finish(t, [NoResult EXCEPT !.op = "add", !.status = "ok"])
            /\ UNCHANGED <<index, indexFile, chunksTable, conn, allocated>>
       ELSE /\ pc' = [pc EXCEPT ![t] = "a_read"]
            /\ local' = [local EXCEPT ![t] =
                   [IdleLocal EXCEPT !.op = "add", !.doc_id = doc_id,
                                     !.chunks = ChunksOf[content]]]
            /\ response' = NoResult
            /\ UNCHANGED <<index, indexFile, chunksTable, conn, allocated>>

(* AddReadCount taking start_id from the chunks table: one above the      *)
(* highest vector_id, 0 without rows                                      *)
AddReadCount_FromTable(t, enc_ok) ==
    /\ pc[t] = "a_read"
    /\ UNCHANGED <<serial, calls, chunker>>
    /\ IF enc_ok
       THEN /\ pc' = [pc EXCEPT ![t] = "a_addvec"]
            /\ local' = [local EXCEPT ![t].start_id =
                   LET ids == VectorIdsOf(Visible)
                   IN  IF ids = {} THEN 0
                       ELSE 1 + (CHOOSE m \in ids : \A v \in ids : v <= m)]
            /\ response' = response
       ELSE Finish(t, [NoResult EXCEPT !.op = "add", !.status = "error",
                                       !.error = "encode"])
    /\ UNCHANGED <<index, indexFile, chunksTable, conn, allocated>>

(* lines 115-117: embeddings = self.model.encode(chunks), which may raise *)
(* (enc_ok = FALSE: the exception leaves add_document, /add answers 500), *)
(* then start_id = self.index.ntotal                                      *)
AddReadCount(t, enc_ok) ==
    /\ pc[t] = "a_read"
    /\ UNCHANGED <<serial, calls, chunker>>
    /\ IF enc_ok
       THEN /\ pc' = [pc EXCEPT ![t] = "a_addvec"]
            /\ local' = [local EXCEPT ![t].start_id = ntotal]
            /\ response' = response
       ELSE Finish(t, [NoResult EXCEPT !.op = "add", !.status = "error",
                                       !.error = "encode"])
    /\ UNCHANGED <<index, indexFile, chunksTable, conn, allocated>>

(* AddVectors with a failing add_with_ids still followed by _save_index *)
AddVectors_PersistOnFailure(t, idx_ok) ==
    /\ pc[t] = "a_addvec"
    /\ UNCHANGED <<serial, calls, chunker>>
    /\ IF idx_ok
       THEN /\ index' = AddWithIds(index, local[t].chunks,
                                   VectorIds(local[t].start_id, Len(local[t].chunks)))
            /\ pc' = [pc EXCEPT ![t] = "a_insert"]
            /\ local' = [local EXCEPT ![t].i = 1]
            /\ response' = response
            /\ indexFile' = indexFile
       ELSE /\ index' = index
            /\ indexFile' = [exists |-> TRUE, data |-> index, torn |-> FALSE]
            /\ Finish(t, [NoResult EXCEPT !.op = "add", !.status = "error",
                                          !.error = "index"])
    /\ UNCHANGED <<chunksTable, conn, allocated>>

(* lines 118-120: add the embeddings under start_id .. start_id + n - 1.   *)
(* add_with_ids may raise (idx_ok = FALSE); FAISS checks its arguments     *)
(* before it stores anything, so the index is as before, and the exception *)
(* leaves add_document.                                                    *)
AddVectors(t, idx_ok) ==
    /\ pc[t] = "a_addvec"
    /\ UNCHANGED <<serial, calls, chunker>>
    /\ IF idx_ok
       THEN /\ index' = AddWithIds(index, local[t].chunks,
                                   VectorIds(local[t].start_id, Len(local[t].chunks)))
            /\ pc' = [pc EXCEPT ![t] = "a_insert"]
            /\ local' = [local EXCEPT ![t].i = 1]
            /\ response' = response
       ELSE /\ index' = index
            /\ Finish(t, [NoResult EXCEPT !.op = "add", !.status = "error",
                                          !.error = "index"])
    /\ UNCHANGED <<indexFile, chunksTable, conn, allocated>>

(* lines 124-128: one cursor.execute(INSERT ...).  It raises psycopg2.Error *)
(* when the server fails (db_ok = FALSE), when the transaction of the      *)
(* connection is already aborted, or when vector_id is not UNIQUE.         *)
AddInsert(t, db_ok) ==
    /\ pc[t] = "a_insert"
    /\ UNCHANGED <<serial, calls, chunker>>
    /\ LET l   == local[t]
           row == InsertRow(l.doc_id, l.chunks,
                            VectorIds(l.start_id, Len(l.chunks)), l.i)
       IN  IF db_ok /\ ~conn.aborted /\ row.vector_id \notin VectorIdsOf(Visible)
           THEN /\ conn' = [conn EXCEPT !.pending = @ \cup {row}]
                /\ local' = [local EXCEPT ![t].i = @ + 1]
                /\ pc' = [pc EXCEPT ![t] =
                       IF l.i = Len(l.chunks) THEN "a_commit" ELSE "a_insert"]
           ELSE /\ conn' = [conn EXCEPT !.aborted = TRUE]
                /\ local' = [local EXCEPT ![t].failed = TRUE]
                /\ pc' = [pc EXCEPT ![t] = "a_rollback"]
    /\ UNCHANGED <<index, indexFile, chunksTable, response, allocated>>

(* what a successful COMMIT leaves in the table *)
CommitTable == IF conn.aborted THEN chunksTable ELSE Visible

(* line 129: self.conn.commit().  COMMIT of an aborted transaction rolls   *)
(* it back and raises nothing; a failing COMMIT raises psycopg2.Error.     *)
AddCommit(t, db_ok) ==
    /\ pc[t] = "a_commit"
    /\ UNCHANGED <<serial, calls, chunker>>
    /\ IF db_ok
       THEN /\ chunksTable' = CommitTable
            /\ conn' = NoTxn
            /\ pc' = [pc EXCEPT ![t] = "a_save"]
            /\ local' = local
       ELSE /\ chunksTable' = chunksTable
            /\ conn' = [conn EXCEPT !.aborted = TRUE]
            /\ pc' = [pc EXCEPT ![t] = "a_rollback"]
            /\ local' = [local EXCEPT ![t].failed = TRUE]
    /\ UNCHANGED <<index, indexFile, response, allocated>>

(* AddRollback taking the vectors of the call out of the index again *)
AddRollback_DropVectors(t) ==
    /\ pc[t] = "a_rollback"
    /\ UNCHANGED <<serial, calls, chunker>>
    /\ conn' = NoTxn
    /\ index' = SubSeq(index, 1, local[t].start_id)
    /\ Finish(t, [NoResult EXCEPT !.op = "add", !.status = "error", !.error = "db"])
    /\ UNCHANGED <<indexFile, chunksTable, allocated>>

(* lines 130-133: rollback and re-raise; /add answers 500 with the text of *)
(* the exception                                                           *)
AddRollback(t) ==
    /\ pc[t] = "a_rollback"
    /\ UNCHANGED <<serial, calls, chunker>>
    /\ conn' = NoTxn
    /\ Finish(t, [NoResult EXCEPT !.op = "add", !.status = "error", !.error = "db"])
    /\ UNCHANGED <<index, indexFile, chunksTable, allocated>>

(* faiss.write_index(self.index, self.index_path) *)
SaveIndex(idx) == [exists |-> TRUE, data |-> idx, torn |-> FALSE]

(* lines 135-136: persist the index and return normally *)
AddSave(t) ==
    /\ pc[t] = "a_save"
    /\ UNCHANGED <<serial, calls, chunker>>
    /\ indexFile' = SaveIndex(index)
    /\ allocated' = Append(allocated,
           [doc_id |-> local[t].doc_id, start_id |-> local[t].start_id,
            chunks |-> local[t].chunks])
    /\ Finish(t, [NoResult EXCEPT !.op = "add", !.status = "ok",
                                  !.added = Len(local[t].chunks)])
    /\ UNCHANGED <<index, chunksTable, conn>>

-----------------------------------------------------------------------------
(* search(query, k): faiss_manager.py lines 138-174 *)

(* The orders in which the index may rank the stored vectors at positions  *)
(* S for the query q: ascending distance, equal distances in any order.    *)
RECURSIVE NearestFirst(_, _, _)
NearestFirst(idx, q, S) ==
    IF S = {} THEN {<<>>}
    ELSE LET nearest == {p \in S : \A r \in S : L2(q, idx[p].vec) <= L2(q, idx[r].vec)}
         IN  UNION {{<<p>> \o rest : rest \in NearestFirst(idx, q, S \ {p})}
                    : p \in nearest}

(* IndexSearch with the unfilled slots repeating id 0 *)
IndexSearch_PadWithZero(idx, q, k) ==
    LET n == Len(idx)
    IN  {[distances  |-> [p \in 1..k |-> IF p <= n THEN L2(q, idx[f[p]].vec) ELSE FLT_MAX],
          vector_ids |-> [p \in 1..k |-> IF p <= n THEN idx[f[p]].id ELSE 0]]
         : f \in NearestFirst(idx, q, DOMAIN idx)}

(* self.index.search(q, k): the stored vectors by ascending distance, cut  *)
(* to k, unfilled slots holding id -1.  The set of the (distances,         *)
(* vector_ids) pairs the call may return.                                  *)
IndexSearch(idx, q, k) ==
    LET n == Len(idx)
    IN  {[distances  |-> [p \in 1..k |-> IF p <= n THEN L2(q, idx[f[p]].vec) ELSE FLT_MAX],
          vector_ids |-> [p \in 1..k |-> IF p <= n THEN idx[f[p]].id ELSE NoMatch]]
         : f \in NearestFirst(idx, q, DOMAIN idx)}

(* line 150: the ids that are not the sentinel *)
VecIdsTuple(vector_ids) ==
    {vector_ids[p] : p \in {q \in DOMAIN vector_ids : vector_ids[q] # NoMatch}}

(* line 158: {row['vector_id']: row for row in rows} *)
RowsByVecId(rows) ==
    [v \in VectorIdsOf(rows) |-> CHOOSE r \in rows : r.vector_id = v]

(* the positions of vector_ids, in order, whose id has a row *)
RECURSIVE KeptFrom(_, _, _)
KeptFrom(vector_ids, byId, p) ==
    IF p > Len(vector_ids) THEN <<>>
    ELSE (IF vector_ids[p] \in DOMAIN byId THEN <<p>> ELSE <<>>)
         \o KeptFrom(vector_ids, byId, p + 1)

(* ScoreAt indexed by the position in the result list, not in the hits *)
ScoreAt_ResultPosition(distances, kept, j) == distances[j]

(* the score line 166 gives the entry built from position p: distances[0][i] *)
ScoreAt(distances, kept, j) == distances[kept[j]]

(* Assemble giving up the whole list when a hit has no row *)
Assemble_AllOrNothing(distances, vector_ids, byId) ==
    LET kept == KeptFrom(vector_ids, byId, 1)
    IN  IF \E p \in DOMAIN vector_ids :
               vector_ids[p] # NoMatch /\ vector_ids[p] \notin DOMAIN byId
        THEN <<>>
        ELSE [j \in 1..Len(kept) |->
                 [doc_id     |-> byId[vector_ids[kept[j]]].doc_id,
                  chunk_text |-> byId[vector_ids[kept[j]]].chunk_text,
                  score      |-> ScoreAt(distances, kept, j)]]

(* lines 160-167: the loop that builds the result list *)
Assemble(distances, vector_ids, byId) ==
    LET kept == KeptFrom(vector_ids, byId, 1)
    IN  [j \in 1..Len(kept) |->
            [doc_id     |-> byId[vector_ids[kept[j]]].doc_id,
             chunk_text |-> byId[vector_ids[kept[j]]].chunk_text,
             score      |-> ScoreAt(distances, kept, j)]]

(* lines 143-152: embed the query, search the index; with no valid id the  *)
(* call returns [] without touching the database.  k < 1 is not checked    *)
(* here or in SearchQuery: FAISS either answers with empty arrays or       *)
(* refuses the call, depending on its version.                             *)
SearchBegin(t, query, k) ==
    /\ pc[t] = "idle"
    /\ Admit
    /\ \E hit \in IndexSearch(index, Embed(query), k) :
         IF VecIdsTuple(hit.vector_ids) = {}
         THEN \E st \in (IF k < 1 THEN {"ok", "error"} ELSE {"ok"}) :
                 Finish(t, [NoResult EXCEPT !.op = "search", !.status = st, !.k = k,
                               !.error = IF st = "ok" THEN "none" ELSE "k",
                               !.distances = IF st = "ok" THEN hit.distances ELSE <<>>,
                               !.vector_ids = IF st = "ok" THEN hit.vector_ids ELSE <<>>])
         ELSE /\ pc' = [pc EXCEPT ![t] = "s_select"]
              /\ local' = [local EXCEPT ![t] =
                     [IdleLocal EXCEPT !.op = "search", !.distances = hit.distances,
                                       !.vector_ids = hit.vector_ids]]
              /\ response' = NoResult
    /\ UNCHANGED <<index, indexFile, chunksTable, conn, allocated>>

(* lines 154-167: one SELECT ... WHERE vector_id IN ids, then the join *)
SearchSelect(t, db_ok) ==
    /\ pc[t] = "s_select"
    /\ UNCHANGED <<serial, calls, chunker>>
    /\ IF db_ok /\ ~conn.aborted
       THEN LET rows == {r \in Visible : r.vector_id \in VecIdsTuple(local[t].vector_ids)}
            IN  /\ Finish(t, [NoResult EXCEPT !.op = "search", !.status = "ok",
                       !.k = Len(local[t].vector_ids),
                       !.distances = local[t].distances,
                       !.vector_ids = local[t].vector_ids,
                       !.rows = rows,
                       !.results = Assemble(local[t].distances, local[t].vector_ids,
                                            RowsByVecId(rows))])
                /\ conn' = conn
       ELSE /\ conn' = [conn EXCEPT !.aborted = TRUE]
            /\ pc' = [pc EXCEPT ![t] = "s_rollback"]
            /\ local' = [local EXCEPT ![t].failed = TRUE]
            /\ response' = response
    /\ UNCHANGED <<index, indexFile, chunksTable, allocated>>

(* lines 168-171: rollback and re-raise *)
SearchRollback(t) ==
    /\ pc[t] = "s_rollback"
    /\ UNCHANGED <<serial, calls, chunker>>
    /\ conn' = NoTxn
    /\ Finish(t, [NoResult EXCEPT !.op = "search", !.status = "error", !.error = "db",
                                  !.k = Len(local[t].vector_ids)])
    /\ UNCHANGED <<index, indexFile, chunksTable, allocated>>

-----------------------------------------------------------------------------
(* reset(): faiss_manager.py lines 176-194 *)

(* _load_index: the saved index when the file exists, else an empty one *)
LoadIndex(file) == IF file.exists THEN file.data ELSE <<>>

(* line 182: TRUNCATE TABLE chunks RESTART IDENTITY, inside the open       *)
(* transaction of the connection                                           *)
ResetTruncate(t, db_ok) ==
    /\ pc[t] = "idle"
    /\ Admit
    /\ local' = [local EXCEPT ![t] =
           [IdleLocal EXCEPT !.op = "reset", !.failed = ~(db_ok /\ ~conn.aborted)]]
    /\ IF db_ok /\ ~conn.aborted
       THEN /\ conn' = [conn EXCEPT !.pending = {}, !.truncated = TRUE]
            /\ pc' = [pc EXCEPT ![t] = "r_commit"]
       ELSE /\ conn' = [conn EXCEPT !.aborted = TRUE]
            /\ pc' = [pc EXCEPT ![t] = "r_rollback"]
    /\ allocated' = <<>>
    /\ response' = NoResult
    /\ UNCHANGED <<index, indexFile, chunksTable>>

(* line 183: self.conn.commit() *)
ResetCommit(t, db_ok) ==
    /\ pc[t] = "r_commit"
    /\ UNCHANGED <<serial, calls, chunker>>
    /\ IF db_ok
       THEN /\ chunksTable' = CommitTable
            /\ conn' = NoTxn
            /\ pc' = [pc EXCEPT ![t] = "r_remove"]
            /\ local' = local
       ELSE /\ chunksTable' = chunksTable
            /\ conn' = [conn EXCEPT !.aborted = TRUE]
            /\ pc' = [pc EXCEPT ![t] = "r_rollback"]
            /\ local' = [local EXCEPT ![t].failed = TRUE]
    /\ UNCHANGED <<index, indexFile, response, allocated>>

(* lines 185-187: the error is printed, rolled back and swallowed: the     *)
(* method goes on to step 2                                                *)
ResetRollback(t) ==
    /\ pc[t] = "r_rollback"
    /\ UNCHANGED <<serial, calls, chunker>>
    /\ conn' = NoTxn
    /\ pc' = [pc EXCEPT ![t] = "r_remove"]
    /\ UNCHANGED <<index, indexFile, chunksTable, local, response, allocated>>

(* lines 190-192: remove the index file when it exists *)
ResetRemoveFile(t) ==
    /\ pc[t] = "r_remove"
    /\ UNCHANGED <<serial, calls, chunker>>
    /\ indexFile' = NoFile
    /\ pc' = [pc EXCEPT ![t] = "r_load"]
    /\ UNCHANGED <<index, chunksTable, conn, local, response, allocated>>

(* line 193: self.index = self._load_index() *)
ResetLoadIndex(t) ==
    /\ pc[t] = "r_load"
    /\ UNCHANGED <<serial, calls, chunker>>
    /\ index' = LoadIndex(indexFile)
    /\ Finish(t, [NoResult EXCEPT !.op = "reset", !.status = "ok"])
    /\ UNCHANGED <<indexFile, chunksTable, conn, allocated>>

-----------------------------------------------------------------------------
(* The endpoint sends its answer and the thread is free again *)
Return(t) ==
    /\ pc[t] = "done"
    /\ pc' = [pc EXCEPT ![t] = "idle"]
    /\ response' = NoResult
    /\ UNCHANGED <<index, indexFile, chunksTable, conn, local, allocated, serial, calls,
                   chunker>>

(* The handlers' steps after the first *)
Step(t) ==
    \/ \E enc_ok \in BOOLEAN : AddReadCount(t, enc_ok)
    \/ \E idx_ok \in BOOLEAN : AddVectors(t, idx_ok)
    \/ \E db_ok \in BOOLEAN : AddInsert(t, db_ok)
    \/ \E db_ok \in BOOLEAN : AddCommit(t, db_ok)
    \/ AddRollback(t)
    \/ AddSave(t)
    \/ \E db_ok \in BOOLEAN : SearchSelect(t, db_ok)
    \/ SearchRollback(t)
    \/ \E db_ok \in BOOLEAN : ResetCommit(t, db_ok)
    \/ ResetRollback(t)
    \/ ResetRemoveFile(t)
    \/ ResetLoadIndex(t)
    \/ Return(t)

(* A request arrives and its handler takes its first step *)
Call(t) ==
    \/ \E doc_id \in DocIds, content \in Contents : AddBegin(t, doc_id, content)
    \/ \E query \in Queries, k \in Ks : SearchBegin(t, query, k)
    \/ \E db_ok \in BOOLEAN : ResetTruncate(t, db_ok)

Next == \E t \in Threads : Call(t) \/ Step(t)

(* The service as deployed: requests are served concurrently *)
Spec == Init /\ [][Next]_vars

(* The service with one request at a time *)
SpecSeq == InitSeq /\ [][Next]_vars

-----------------------------------------------------------------------------
(* The process dies and is started again *)

(* faiss.write_index opens index_path for writing and streams the index    *)
(* into it: a process that dies in the middle leaves a cut-off file        *)
TornFile == [exists |-> TRUE, data |-> <<>>, torn |-> TRUE]

(* The process dies at any point.  The in-memory index and the handlers    *)
(* are gone, the server rolls back the open transaction of the dropped     *)
(* connection; committed rows and the index file stay, the file cut off    *)
(* when a handler was writing it.                                          *)
Crash ==
    /\ \A t \in Threads : pc[t] # "down"
    /\ pc' = [t \in Threads |-> "down"]
    /\ local' = [t \in Threads |-> IdleLocal]
    /\ response' = NoResult
    /\ index' = <<>>
    /\ conn' = NoTxn
    /\ allocated' = <<>>
    /\ \/ indexFile' = indexFile
       \/ (\E t \in Threads : pc[t] = "a_save") /\ indexFile' = TornFile
    /\ UNCHANGED <<chunksTable, serial, calls, chunker>>

(* faiss_manager = FaissManager() at import of main.py: __init__ connects  *)
(* and loads the index, nothing else.  faiss.read_index raises on a        *)
(* cut-off file and the process does not come up.                          *)
Startup ==
    /\ \A t \in Threads : pc[t] = "down"
    /\ IF indexFile.torn
       THEN UNCHANGED <<index, pc>>
       ELSE /\ index' = LoadIndex(indexFile)
            /\ pc' = [t \in Threads |-> "idle"]
    /\ UNCHANGED <<indexFile, chunksTable, conn, local, response, allocated,
                   serial, calls, chunker>>

NextCrash == Next \/ Crash \/ Startup

(* One request at a time, with crashes and restarts of the process *)
SpecCrash == InitSeq /\ [][NextCrash]_vars

-----------------------------------------------------------------------------
(* _chunk_text on its own, for texts of up to MaxTokens tokens and every   *)
(* CHUNK_SIZE up to MaxChunkSize with every CHUNK_OVERLAP below it.        *)

(* a text of T one-letter tokens, the separators cycling through the       *)
(* whitespace characters, with leading whitespace                          *)
TextOf(T) == [i \in 1..(2 * T) |->
                 IF i % 2 = 0 THEN "w"
                 ELSE IF i % 6 = 1 THEN " " ELSE IF i % 6 = 3 THEN "\n" ELSE "\t"]

InitChunk ==
    /\ index = <<>>
    /\ indexFile = NoFile
    /\ chunksTable = {}
    /\ conn = NoTxn
    /\ pc = [t \in Threads |-> "idle"]
    /\ local = [t \in Threads |-> IdleLocal]
    /\ response = NoResult
    /\ allocated = <<>>
    /\ serial = TRUE
    /\ calls = 0
    /\ \E T \in 0..MaxTokens, size \in 1..MaxChunkSize :
          \E overlap \in 0..(size - 1) :
             chunker = [text |-> TextOf(T), size |-> size, overlap |-> overlap,
                        called |-> FALSE, chunks |-> <<>>]

(* lines 95-102: the call of _chunk_text *)
ChunkText ==
    /\ ~chunker.called
    /\ chunker' = [chunker EXCEPT
           !.called = TRUE,
           !.chunks = ChunkWindows(Split(chunker.text), chunker.size, chunker.overlap)]
    /\ UNCHANGED <<index, indexFile, chunksTable, conn, pc, local, response, allocated,
                   serial, calls>>

NextChunk == ChunkText

SpecChunk == InitChunk /\ [][NextChunk]_vars

-----------------------------------------------------------------------------
(* Properties *)

IndexIds == {index[p].id : p \in DOMAIN index}

RowsWith(v) == {r \in chunksTable : r.vector_id = v}

InAddSection(t) ==
    pc[t] \in {"a_addvec", "a_insert", "a_commit", "a_rollback", "a_save"}

(* the positions of the hits whose id has one of the fetched rows, and the  *)
(* place in the result list of the entry built from position p              *)
KeptPositions(r) ==
    {p \in DOMAIN r.vector_ids : r.vector_ids[p] \in VectorIdsOf(r.rows)}

PlaceOf(r, p) == Cardinality({q \in KeptPositions(r) : q <= p})

SearchReturned == response.op = "search" /\ response.status = "ok"

(* C1: invariant I1.  Between operations the vectorIds stored in the index  *)
(* are exactly the vectorIds of the rows of the chunks table, one row each. *)
C1_I1 ==
    AllIdle =>
        /\ IndexIds = VectorIdsOf(chunksTable)
        /\ \A v \in IndexIds : Cardinality(RowsWith(v)) = 1

(* C2: scenario D.  With add_document calls running concurrently no two    *)
(* chunks hold the same vectorId, in the index or in the chunks table.      *)
C2_NoSharedVectorId ==
    /\ \A p, q \in DOMAIN index : p # q => index[p].id # index[q].id
    /\ \A r1, r2 \in chunksTable \cup conn.pending :
           r1 # r2 => r1.vector_id # r2.vector_id

(* C3: ID allocation.  A call that is past its allocation holds the block   *)
(* [start_id, start_id + n), start_id being the count of the index it read: *)
(* chunk i is stored in the index, and written to the table, under          *)
(* start_id + i - 1; the blocks of the calls that returned normally are     *)
(* disjoint and increase in the order of the calls.                         *)
C3_IdAllocation ==
    /\ \A t \in Threads :
          pc[t] = "a_addvec" => local[t].start_id = ntotal
    /\ \A t \in Threads :
          InAddSection(t) /\ pc[t] # "a_addvec" =>
            LET l == local[t]
                n == Len(l.chunks)
                RowAt(i) == [doc_id |-> l.doc_id, chunk_text |-> l.chunks[i],
                             vector_id |-> l.start_id + i - 1]
            IN  /\ n >= 1
                /\ ntotal = l.start_id + n
                /\ \A i \in 1..n :
                      index[l.start_id + i] =
                          [id |-> l.start_id + i - 1, vec |-> Embed(l.chunks[i])]
                /\ conn.pending \subseteq {RowAt(i) : i \in 1..n}
                /\ pc[t] = "a_commit" => conn.pending = {RowAt(i) : i \in 1..n}
                /\ pc[t] = "a_save" => {RowAt(i) : i \in 1..n} \subseteq chunksTable
    /\ \A a \in DOMAIN allocated :
          /\ Len(allocated[a].chunks) >= 1
          /\ \A i \in 1..Len(allocated[a].chunks) :
                [doc_id |-> allocated[a].doc_id, chunk_text |-> allocated[a].chunks[i],
                 vector_id |-> allocated[a].start_id + i - 1] \in chunksTable
    /\ \A a, b \in DOMAIN allocated :
          a < b => allocated[a].start_id + Len(allocated[a].chunks)
                       <= allocated[b].start_id

(* C3 witness: two calls have returned normally, one of them with a block   *)
(* of two chunks, the second block starting above 0.                        *)
C3_Witness ==
    /\ Len(allocated) = 2
    /\ allocated[2].start_id > 0
    /\ \E a \in DOMAIN allocated : Len(allocated[a].chunks) = 2

(* C4: mutual exclusion.  At most one add_document call is between reading  *)
(* the index count and finishing the index persist.                         *)
C4_MutualExclusion == Cardinality({t \in Threads : InAddSection(t)}) <= 1

(* C5: reset failure.  Once clearing the chunks table has failed, the rest  *)
(* of that reset() leaves the index file and the in-memory index alone.     *)
C5_ResetAbortsOnFailure ==
    [][\A t \in Threads :
          (local[t].op = "reset" /\ local[t].failed)
              => (index' = index /\ indexFile' = indexFile)]_vars

(* C6: reset idempotence.  When reset() has returned, once or twice in a    *)
(* row, the chunks table is empty, the in-memory index is empty and there   *)
(* is no index file.                                                        *)
C6_ResetLeavesEmpty ==
    response.op = "reset"
        => (chunksTable = {} /\ index = <<>> /\ ~indexFile.exists)

(* C7: join completeness.  In the result of a search that follows           *)
(* add_document calls that returned normally, an entry built from a         *)
(* vectorId of a call's block carries the doc_id of that call and the text  *)
(* of the chunk embedded under that vectorId.                               *)
C7_JoinCompleteness ==
    SearchReturned =>
        \A p \in KeptPositions(response) : \A a \in DOMAIN allocated :
            LET v == response.vector_ids[p]
                b == allocated[a]
                i == v - b.start_id + 1
            IN  i \in 1..Len(b.chunks) =>
                  /\ PlaceOf(response, p) \in DOMAIN response.results
                  /\ response.results[PlaceOf(response, p)].doc_id = b.doc_id
                  /\ response.results[PlaceOf(response, p)].chunk_text = b.chunks[i]
                  /\ \A q \in DOMAIN index :
                        index[q].id = v => index[q].vec = Embed(b.chunks[i])

(* C7 witness: a search returned the second chunk of a two-chunk document   *)
(* whose block starts above 0.                                              *)
C7_Witness ==
    /\ SearchReturned
    /\ \E a \in DOMAIN allocated :
          /\ Len(allocated[a].chunks) = 2
          /\ allocated[a].start_id > 0
          /\ \E p \in KeptPositions(response) :
                response.vector_ids[p] = allocated[a].start_id + 1

(* C8: ranking order.  The result list keeps the order of the hits: the     *)
(* entry built from a hit carries that hit's distance and the row of that   *)
(* hit's vectorId, there is one entry per hit that has a row, and scores    *)
(* never decrease along the list.                                           *)
C8_RankingOrder ==
    SearchReturned =>
        /\ Len(response.results) = Cardinality(KeptPositions(response))
        /\ \A p \in KeptPositions(response) :
              LET e == response.results[PlaceOf(response, p)]
              IN  /\ e.score = response.distances[p]
                  /\ [doc_id |-> e.doc_id, chunk_text |-> e.chunk_text,
                      vector_id |-> response.vector_ids[p]] \in response.rows
        /\ \A j, k \in DOMAIN response.results :
              j < k => response.results[j].score <= response.results[k].score

(* C8 witness: a search returned an entry that stands behind a dropped hit  *)
(* of another distance.                                                     *)
C8_Witness ==
    /\ SearchReturned
    /\ \E p, q \in DOMAIN response.vector_ids :
          /\ p < q
          /\ response.vector_ids[p] # NoMatch
          /\ p \notin KeptPositions(response)
          /\ q \in KeptPositions(response)
          /\ response.distances[p] # response.distances[q]

(* C9: validation.  While add_document runs with an empty doc_id no vector  *)
(* is added to the index, no row is inserted and the index file is not      *)
(* rewritten.                                                               *)
C9_EmptyDocIdRejected ==
    [][(\E t \in Threads : local[t].op = "add" /\ local[t].doc_id = "")
          => UNCHANGED <<index, indexFile, chunksTable, conn>>]_vars

(* C10: scenario B.  An add_document call that returns at once (no chunks)  *)
(* reports success with nothing added and leaves the in-memory index, the   *)
(* chunks table, the open transaction and the index file as they were.      *)
C10_ZeroChunksNoEffect ==
    [][(AllIdle /\ response'.op = "add")
          => /\ response'.status = "ok"
             /\ response'.added = 0
             /\ UNCHANGED <<index, indexFile, chunksTable, conn>>]_vars

(* C10 witness: a no-chunks call has returned with vectors in the index,    *)
(* rows in the table and an index file older than the index.                *)
C10_Witness ==
    /\ response.op = "add" /\ response.status = "ok" /\ response.added = 0
    /\ chunksTable # {}
    /\ indexFile.exists
    /\ Len(indexFile.data) < ntotal

(* C11: search result size.  A search with k >= 1 that returns hands back   *)
(* at most min(k, number of vectors in the index) entries, each built from  *)
(* a hit whose id is not the sentinel -1 and carrying that hit's row; on an *)
(* empty index the call returns the empty list and no error.                *)
C11_SearchResultSize ==
    (response.op = "search" /\ response.k >= 1) =>
        /\ response.status = "ok" =>
              /\ Len(response.results) <= Min(response.k, ntotal)
              /\ \A p \in KeptPositions(response) : response.vector_ids[p] # NoMatch
              /\ \A j \in DOMAIN response.results :
                    \E p \in DOMAIN response.vector_ids :
                       /\ response.vector_ids[p] # NoMatch
                       /\ response.results[j].score = response.distances[p]
                       /\ [doc_id     |-> response.results[j].doc_id,
                           chunk_text |-> response.results[j].chunk_text,
                           vector_id  |-> response.vector_ids[p]] \in chunksTable
        /\ index = <<>> => (response.status = "ok" /\ response.results = <<>>)

(* C11 witness: a search asked for more hits than the index holds vectors   *)
(* and returned entries, the slots past the vectors holding the sentinel.   *)
C11_Witness ==
    /\ SearchReturned
    /\ response.k > ntotal
    /\ response.results # <<>>
    /\ \E p \in DOMAIN response.vector_ids : response.vector_ids[p] = NoMatch

(* C11 witness of scenario C: search with k = 5 on the empty store *)
C11_EmptyStoreWitness ==
    /\ SearchReturned
    /\ response.k = DefaultK
    /\ index = <<>>
    /\ chunksTable = {}

Ceil(a, b) == (a + b - 1) \div b

(* the characters of a string of one-letter tokens joined by single spaces *)
TokensIn(chunk) == (Len(chunk) + 1) \div 2

(* C12 as stated: chunk count.  For T tokens, chunk size S and overlap O    *)
(* the chunker returns ceil(max(T - O, 0) / (S - O)) chunks, none for T = 0. *)
C12_ChunkCountAsStated ==
    chunker.called =>
        LET T      == Len(Split(chunker.text))
            stride == chunker.size - chunker.overlap
        IN  /\ Len(chunker.chunks) =
                  Ceil(IF T > chunker.overlap THEN T - chunker.overlap ELSE 0, stride)
            /\ T = 0 => chunker.chunks = <<>>

(* C12 amended: chunk count.  For T tokens, chunk size S and overlap O the  *)
(* chunker returns ceil(T / (S - O)) chunks, one window starting at every   *)
(* multiple of the stride below T; window w (from 0) holds                  *)
(* min(S, T - w * stride) tokens, so only windows at the end are shorter    *)
(* than S; no chunk for T = 0.                                              *)
C12_ChunkCount ==
    chunker.called =>
        LET T      == Len(Split(chunker.text))
            stride == chunker.size - chunker.overlap
        IN  /\ Len(chunker.chunks) = Ceil(T, stride)
            /\ \A w \in DOMAIN chunker.chunks :
                  TokensIn(chunker.chunks[w]) = Min(chunker.size, T - (w - 1) * stride)
            /\ T = 0 => chunker.chunks = <<>>

(* C12 witness: a text longer than the chunk size was chunked with a        *)
(* positive overlap, and the last window came out shorter than the size.    *)
C12_Witness ==
    /\ chunker.called
    /\ chunker.overlap > 0
    /\ Len(Split(chunker.text)) > chunker.size
    /\ Len(chunker.chunks) >= 2
    /\ TokensIn(chunker.chunks[Len(chunker.chunks)]) < chunker.size

Started == (\A t \in Threads : pc[t] = "down") /\ (\A t \in Threads : pc'[t] = "idle")

(* C13: crash ordering.  When the process has died at any point of          *)
(* add_document and comes up again with the index loaded from its file, no  *)
(* row of the chunks table carries a vectorId that the loaded index lacks.  *)
C13_CrashOrdering ==
    [][Started => VectorIdsOf(chunksTable') \subseteq {index'[p].id : p \in DOMAIN index'}]_vars

(* the rows add_document writes for the chunks lo..hi of the call of t *)
RowsOfCall(t, lo, hi) ==
    {InsertRow(local[t].doc_id, local[t].chunks,
               VectorIds(local[t].start_id, Len(local[t].chunks)), i) : i \in lo..hi}

(* C14: atomic metadata commit under concurrency.  While an add_document    *)
(* call has rows pending in the transaction and no reset() is running, a    *)
(* step of another add_document or search call on the same manager neither  *)
(* discards them (its rollback) nor commits them (its commit); and the      *)
(* call's own commit puts all its n rows into the chunks table.             *)
C14_AtomicCommit ==
    [][\A t \in Threads :
          LET mine == RowsOfCall(t, 1, local[t].i - 1)
          IN  (/\ pc[t] \in {"a_insert", "a_commit"}
               /\ mine \subseteq conn.pending
               /\ \A v \in Threads : local[v].op # "reset") =>
                /\ \A u \in Threads \ {t} :
                      (local[u].op \in {"add", "search"} /\ pc'[u] # pc[u]) =>
                          /\ mine \subseteq conn'.pending
                          /\ mine \cap chunksTable' = mine \cap chunksTable
                /\ pc'[t] = "a_save" =>
                      RowsOfCall(t, 1, Len(local[t].chunks)) \subseteq chunksTable'
      ]_vars

(* C15: metadata write failure.  When an INSERT or the commit of            *)
(* add_document has failed, the failing step and the rollback leave the     *)
(* chunks table, the in-memory index and the index file as they are; the    *)
(* call ends reporting failure with no transaction left open, none of the   *)
(* rows it inserted in the chunks table, its n vectors still in the index   *)
(* under start_id .. start_id + n - 1, and an index file without them.      *)
C15_MetadataWriteFailure ==
    [][\A t \in Threads :
          /\ (pc[t] \in {"a_insert", "a_commit"} /\ pc'[t] = "a_rollback") =>
                UNCHANGED <<chunksTable, index, indexFile>>
          /\ pc[t] = "a_rollback" =>
                LET n == Len(local[t].chunks)
                IN  /\ pc'[t] = "done"
                    /\ response'.op = "add" /\ response'.status = "error"
                    /\ conn' = NoTxn
                    /\ chunksTable' = chunksTable
                    /\ RowsOfCall(t, 1, local[t].i - 1) \cap chunksTable' = {}
                    /\ Len(index') = local[t].start_id + n
                    /\ \A i \in 1..n :
                          index'[local[t].start_id + i] =
                              [id  |-> local[t].start_id + i - 1,
                               vec |-> Embed(local[t].chunks[i])]
                    /\ indexFile' = indexFile
                    /\ Len(indexFile'.data) <= local[t].start_id
      ]_vars

(* C15 witness: an add_document of two chunks has failed at the metadata    *)
(* write after an earlier call had succeeded: the index is ahead of the     *)
(* chunks table and of the index file.                                      *)
C15_Witness ==
    /\ response.op = "add" /\ response.status = "error" /\ response.error = "db"
    /\ chunksTable # {}
    /\ indexFile.exists
    /\ ntotal >= Len(indexFile.data) + 2
    /\ ntotal > Cardinality(chunksTable)

(* C16: embedder or index failure.  No step of add_document up to and       *)
(* including the embedding and the index add changes the chunks table, the  *)
(* open transaction or the index file; when the embedding or the index add  *)
(* raises there, the call ends at once reporting that failure.              *)
C16_EmbedOrIndexFailure ==
    [][\A t \in Threads :
          /\ ((pc[t] = "idle" /\ pc'[t] = "a_read") \/ pc[t] \in {"a_read", "a_addvec"}) =>
                UNCHANGED <<chunksTable, conn, indexFile>>
          /\ (pc[t] \in {"a_read", "a_addvec"} /\ pc'[t] = "done") =>
                /\ response'.op = "add"
                /\ response'.status = "error"
                /\ response'.error = (IF pc[t] = "a_read" THEN "encode" ELSE "index")
                /\ conn' = NoTxn
      ]_vars

(* C16 witness: the index add of an add_document has raised, with rows in   *)
(* the chunks table and an index file from an earlier call.                 *)
C16_Witness ==
    /\ response.op = "add" /\ response.status = "error"
    /\ response.error = "index"
    /\ chunksTable # {}
    /\ indexFile.exists

(* C16 witness of the embedder: model.encode has raised *)
C16_EncodeWitness ==
    /\ response.op = "add" /\ response.status = "error"
    /\ response.error = "encode"
    /\ chunksTable # {}

MaxVectorId(rows) == CHOOSE m \in VectorIdsOf(rows) : \A v \in VectorIdsOf(rows) : v <= m

(* C17: startup reconciliation.  When the manager has come up, the count of *)
(* its index equals 1 + max(vectorId) of the chunks table, or both stores   *)
(* are empty: excess vectors were dropped, and with excess rows the start   *)
(* was refused.                                                             *)
C17_StartupReconciliation ==
    [][Started =>
          Len(index') = (IF chunksTable' = {} THEN 0 ELSE 1 + MaxVectorId(chunksTable'))
      ]_vars

InReset(t) == pc[t] \in {"r_commit", "r_rollback", "r_remove", "r_load"}

InAddOrSearch(t) ==
    pc[t] \in {"a_read", "a_addvec", "a_insert", "a_commit", "a_rollback", "a_save",
               "s_select", "s_rollback"}

(* C18: reset exclusivity.  While reset() runs no add_document or search    *)
(* call is in flight, and the other way round; so no add_document holds a   *)
(* start_id it read from an index that a reset has replaced since.          *)
C18_ResetExclusive ==
    /\ \A t, u \in Threads : ~(InReset(t) /\ InAddOrSearch(u))
    /\ \A t \in Threads :
          pc[t] \in {"a_addvec", "a_insert", "a_commit", "a_save"} =>
              local[t].start_id <= ntotal

(* the hits of a response whose vectorId has a row in the chunks table *)
HitsWithRow(r) == {p \in DOMAIN r.vector_ids : r.vector_ids[p] \in VectorIdsOf(chunksTable)}

(* C19: defensive join.  A search whose hits include valid vectorIds        *)
(* without a row in the chunks table returns normally: its list holds, in   *)
(* the order of the hits, one entry for each hit whose vectorId has a row   *)
(* (that row's doc_id and text, the hit's distance) and nothing else; a     *)
(* search fails only when the database fails or k is below 1.               *)
C19_DefensiveJoin ==
    /\ SearchReturned =>
          /\ Len(response.results) = Cardinality(HitsWithRow(response))
          /\ \A p \in HitsWithRow(response) :
                LET row == CHOOSE r \in chunksTable : r.vector_id = response.vector_ids[p]
                    j   == Cardinality({q \in HitsWithRow(response) : q <= p})
                IN  response.results[j] =
                        [doc_id |-> row.doc_id, chunk_text |-> row.chunk_text,
                         score |-> response.distances[p]]
    /\ (response.op = "search" /\ response.status = "error") =>
          response.error \in {"db", "k"}

(* C19 witness: a search returned entries although a hit behind a kept hit  *)
(* carries a valid vectorId without a row.                                  *)
C19_Witness ==
    /\ SearchReturned
    /\ response.results # <<>>
    /\ \E p, q \in DOMAIN response.vector_ids :
          /\ p < q
          /\ p \in HitsWithRow(response)
          /\ response.vector_ids[q] # NoMatch
          /\ q \notin HitsWithRow(response)

(* C20: dense index ids.  With one operation at a time, through            *)
(* add_document calls that succeed or fail, resets, crashes and restarts    *)
(* from the index file, the ids stored in the in-memory index are exactly   *)
(* 0 .. count - 1, each once; the block an add_document is about to add     *)
(* under holds no id that is in the index already.                          *)
C20_DenseIndexIds ==
    /\ {index[p].id : p \in DOMAIN index} = 0..(ntotal - 1)
    /\ Cardinality({index[p].id : p \in DOMAIN index}) = ntotal
    /\ \A t \in Threads :
          pc[t] = "a_addvec" =>
              \A i \in 1..Len(local[t].chunks) :
                  VectorIds(local[t].start_id, Len(local[t].chunks))[i]
                      \notin {index[p].id : p \in DOMAIN index}

(* C20 witness: the process has been restarted from an index file that      *)
(* holds vectors, and an add_document that failed at the metadata write has *)
(* left further vectors in the index since.                                 *)
C20_Witness ==
    /\ AllIdle
    /\ allocated = <<>>
    /\ indexFile.exists
    /\ Len(indexFile.data) >= 1
    /\ ntotal > Len(indexFile.data)
    /\ ntotal > Cardinality(chunksTable)

====
